---- MODULE Spec2Model ----
(***************************************************************************)
(* Tsetlin machine (shkmv/tsetlin): automaton, clause, clause bank and     *)
(* machine, modelled from src/src/automaton.rs, clause.rs and machine.rs.  *)
(*                                                                         *)
(* Reals (f64 probabilities, specificity, threshold, random draws) are     *)
(* exact rationals <<num, den>> with den > 0.  Rust indices are 0-based,   *)
(* sequences here are 1-based.                                             *)
(***************************************************************************)
EXTENDS Integers, Sequences, FiniteSets, TLC

VARIABLES
    au,          \* SpecAutomaton: the TsetlinAutomaton under test
    auCalls,     \* number of reward/penalize/update_with_probability calls made on au
    auOnlyPen,   \* TRUE while every call made on au so far was a direct penalize()
    auDraws,     \* number of values au's caller-supplied rng has produced
    auLast,      \* the last call made on au, with the automaton before it
    machine,     \* Spec, SpecPredict: the TsetlinMachine (status "none" before new)
    call,        \* the last call made on the machine: arguments, outcome, result
    fitPc,       \* position inside fit: "idle", "epoch" (loop head), "sample"
    fitLoop,     \* fit's locals: epochs, indices, epochs done, position in indices
    dsFeatures,  \* the caller's feature table (Array2<bool>), fixed per behaviour
    dsLabels,    \* the caller's label array (Array1<bool>), fixed per behaviour
    cl,          \* SpecClause: the Clause under test
    clCall,      \* the last call made on cl: arguments, clause before, result
    clSpec,      \* the specificity cl's caller passes, fixed per behaviour
    cb,          \* SpecBank: the ClauseBank under test
    cbIn,        \* the caller's arguments for vote and update, fixed per behaviour
    cbCall       \* the last call made on cb: bank before, values drawn, result

auVars == <<au, auCalls, auOnlyPen, auDraws, auLast>>

machineVars == <<machine, call, fitPc, fitLoop, dsFeatures, dsLabels>>

clauseVars == <<cl, clCall, clSpec>>

bankVars == <<cb, cbIn, cbCall>>

vars == <<au, auCalls, auOnlyPen, auDraws, auLast,
          machine, call, fitPc, fitLoop, dsFeatures, dsLabels,
          cl, clCall, clSpec, cb, cbIn, cbCall>>

----------------------------------------------------------------------------
(* Bounds *)

MaxDepth == 3            \* automaton depths 1..MaxDepth in SpecAutomaton
DrawDen == 4             \* a draw is k/DrawDen, k in 0..DrawDen-1
ProbDen == 2             \* a probability argument is k/ProbDen

MaxCalls == MaxDepth + 2 \* calls made on one automaton

MaxFeatures == 1         \* num_features and table widths 0..MaxFeatures
MaxClauses == 2          \* num_clauses 0..MaxClauses
MaxSamples == 2          \* rows of a feature table, length of a label array
MaxEpochs == 1           \* epochs argument of fit
MaxRng == 1              \* fit is not started once the rng has produced this many values
MaxTouched == 1          \* SpecPredict: automata of the bank away from their fresh state
PredHalf == 1            \* SpecPredict, SpecBank: num_clauses is 2 * PredHalf
ClauseDepth == 1         \* SpecClause, SpecBank: automaton depths 1..ClauseDepth
BankTouched == 2         \* SpecBank: automata of a bank away from a fresh one

\* f64 arguments of new
Specificities == {<<1, 2>>, <<2, 1>>}

Thresholds == {<<1, 2>>, <<1, 1>>}

----------------------------------------------------------------------------
(* Rationals *)

RLt(a, b) == a[1] * b[2] < b[1] * a[2]

RLe(a, b) == a[1] * b[2] <= b[1] * a[2]

\* draws fed to Clause::update and ClauseBank::update in SpecClause and
\* SpecBank: below every probability used, and on or above 1/2
TapeVals == {<<0, 1>>, <<1, 2>>}

\* rng.gen::<f64>() is uniform in [0, 1)
DrawVals == {<<k, DrawDen>> : k \in 0 .. DrawDen - 1}

\* probability arguments; an f64 argument may exceed 1.0
Probabilities == {<<k, ProbDen>> : k \in 0 .. ProbDen + 1}

----------------------------------------------------------------------------
(* automaton.rs *)

NewAutomaton(num_states) == [state |-> -num_states, num_states |-> num_states]

ActionZeroIncludes(a) == IF a.state >= 0 THEN "Include" ELSE "Exclude"

Action(a) == IF a.state > 0 THEN "Include" ELSE "Exclude"

Min(x, y) == IF x < y THEN x ELSE y

Max(x, y) == IF x > y THEN x ELSE y

RewardNoClamp(a) ==
    IF a.state > 0
    THEN [a EXCEPT !.state = a.state + 1]
    ELSE [a EXCEPT !.state = a.state - 1]

Reward(a) ==
    IF a.state > 0
    THEN [a EXCEPT !.state = Min(a.state + 1, a.num_states)]
    ELSE [a EXCEPT !.state = Max(a.state - 1, -a.num_states)]

PenalizeSkipZero(a) ==
    IF a.state > 0
    THEN [a EXCEPT !.state = IF a.state = 1 THEN -1 ELSE a.state - 1]
    ELSE [a EXCEPT !.state = IF a.state = -1 THEN 1 ELSE a.state + 1]

Penalize(a) ==
    IF a.state > 0
    THEN [a EXCEPT !.state = a.state - 1]
    ELSE [a EXCEPT !.state = a.state + 1]

UpdateWithProbabilityLe(a, reward, probability, u) ==
    IF RLe(u, probability)
    THEN IF reward THEN Reward(a) ELSE Penalize(a)
    ELSE a

\* u is the one value rng.gen::<f64>() returns in this call
UpdateWithProbability(a, reward, probability, u) ==
    IF RLt(u, probability)
    THEN IF reward THEN Reward(a) ELSE Penalize(a)
    ELSE a

----------------------------------------------------------------------------
(* clause.rs: Clause *)

\* vec![TsetlinAutomaton::new(num_states); num_features], twice
ClauseNew(num_features, num_states) ==
    [positive_automata |-> [i \in 1 .. num_features |-> NewAutomaton(num_states)],
     negative_automata |-> [i \in 1 .. num_features |-> NewAutomaton(num_states)]]

\* the loop of Clause::evaluate from index i on, with its early returns;
\* every caller passes an input as long as the clause has features
RECURSIVE EvaluateFrom(_, _, _)
EvaluateFrom(c, input, i) ==
    IF i > Len(input) THEN TRUE
    ELSE IF Action(c.positive_automata[i]) = "Include" /\ ~input[i] THEN FALSE
    ELSE IF Action(c.negative_automata[i]) = "Include" /\ input[i] THEN FALSE
    ELSE EvaluateFrom(c, input, i + 1)

ClauseEvaluatePositiveOnly(c, input) ==
    \A i \in 1 .. Len(input) :
        ~(Action(c.positive_automata[i]) = "Include" /\ ~input[i])

ClauseEvaluate(c, input) == EvaluateFrom(c, input, 1)

\* specificity / (specificity + 1.0)
TypeIProbability(specificity) ==
    <<specificity[1], specificity[1] + specificity[2]>>

\* 1.0 / specificity
TypeIIProbability(specificity) == <<specificity[2], specificity[1]>>

\* One automaton's part of one loop iteration of Clause::update.  st is
\* [a |-> automaton, used |-> draws taken from tape so far]; matches says
\* whether the automaton's literal holds on the input (input[i] for a
\* positive literal, !input[i] for a negative one).

TypeIFiringSwapped(st, matches) ==
    IF Action(st.a) = "Include"
    THEN [st EXCEPT !.a = IF matches THEN Penalize(st.a) ELSE Reward(st.a)]
    ELSE st

\* target, clause_output: reward or penalize an Included literal
TypeIFiring(st, matches) ==
    IF Action(st.a) = "Include"
    THEN [st EXCEPT !.a = IF matches THEN Reward(st.a) ELSE Penalize(st.a)]
    ELSE st

TypeINotFiringRewards(st, matches, specificity, tape) ==
    IF Action(st.a) = "Exclude" /\ matches
    THEN [a |-> UpdateWithProbability(st.a, TRUE, TypeIProbability(specificity),
                                      tape[st.used + 1]),
          used |-> st.used + 1]
    ELSE st

\* target, !clause_output: an Excluded literal that holds on the input
TypeINotFiring(st, matches, specificity, tape) ==
    IF Action(st.a) = "Exclude" /\ matches
    THEN [a |-> UpdateWithProbability(st.a, FALSE, TypeIProbability(specificity),
                                      tape[st.used + 1]),
          used |-> st.used + 1]
    ELSE st

TypeIIAlways(st, clause_output, specificity, tape) ==
    IF Action(st.a) = "Include"
    THEN [a |-> UpdateWithProbability(st.a, FALSE, TypeIIProbability(specificity),
                                      tape[st.used + 1]),
          used |-> st.used + 1]
    ELSE st

\* !target: an Included literal of a clause that fired
TypeII(st, clause_output, specificity, tape) ==
    IF clause_output /\ Action(st.a) = "Include"
    THEN [a |-> UpdateWithProbability(st.a, FALSE, TypeIIProbability(specificity),
                                      tape[st.used + 1]),
          used |-> st.used + 1]
    ELSE st

LiteralUpdateNoOutput(st, which, x, target, clause_output, specificity, tape) ==
    LET matches == IF which = "positive" THEN x ELSE ~x
    IN  IF target
        THEN TypeINotFiring(st, matches, specificity, tape)
        ELSE TypeII(st, clause_output, specificity, tape)

LiteralUpdate(st, which, x, target, clause_output, specificity, tape) ==
    LET matches == IF which = "positive" THEN x ELSE ~x
    IN  IF target
        THEN IF clause_output
             THEN TypeIFiring(st, matches)
             ELSE TypeINotFiring(st, matches, specificity, tape)
        ELSE TypeII(st, clause_output, specificity, tape)

\* Clause::update from loop index i on; r is [clause, used]
RECURSIVE ClauseUpdateFrom(_, _, _, _, _, _, _)
ClauseUpdateFrom(r, input, target, clause_output, specificity, tape, i) ==
    IF i > Len(input) THEN r
    ELSE
        LET p == LiteralUpdate([a |-> r.clause.positive_automata[i], used |-> r.used],
                     "positive", input[i], target, clause_output, specificity, tape)
            n == LiteralUpdate([a |-> r.clause.negative_automata[i], used |-> p.used],
                     "negative", input[i], target, clause_output, specificity, tape)
        IN  ClauseUpdateFrom(
                [clause |-> [positive_automata |->
                                 [r.clause.positive_automata EXCEPT ![i] = p.a],
                             negative_automata |->
                                 [r.clause.negative_automata EXCEPT ![i] = n.a]],
                 used |-> n.used],
                input, target, clause_output, specificity, tape, i + 1)

ClauseUpdateNegatedInput(c, input, target, clause_output, specificity, tape) ==
    ClauseUpdateFrom([clause |-> c, used |-> 0],
                     [i \in 1 .. Len(input) |-> ~input[i]],
                     target, clause_output, specificity, tape, 1)

\* Clause::update; tape is the sequence of values the rng will return, the
\* result is the clause after the call and the number of values consumed
ClauseUpdate(c, input, target, clause_output, specificity, tape) ==
    ClauseUpdateFrom([clause |-> c, used |-> 0],
                     input, target, clause_output, specificity, tape, 1)

\* How many values one Clause::update call takes from the rng: each automaton
\* is tested once, before its own update, so the count does not depend on
\* the values drawn.
ClauseUpdateDraws(c, input, target, clause_output, specificity) ==
    ClauseUpdate(c, input, target, clause_output, specificity,
                 [j \in 1 .. 2 * Len(input) |-> <<0, 1>>]).used

----------------------------------------------------------------------------
(* clause.rs: ClauseBank *)

BankNew(num_features, num_clauses, num_states) ==
    [clauses    |-> [k \in 1 .. num_clauses |-> ClauseNew(num_features, num_states)],
     polarities |-> [k \in 1 .. num_clauses |-> (k - 1) < (num_clauses \div 2)]]

\* the loop of ClauseBank::vote from clause k on
RECURSIVE VoteFrom(_, _, _, _)
VoteFrom(bank, input, k, vote_sum) ==
    IF k > Len(bank.clauses) THEN vote_sum
    ELSE VoteFrom(bank, input, k + 1,
            IF ClauseEvaluate(bank.clauses[k], input)
            THEN IF bank.polarities[k] THEN vote_sum + 1 ELSE vote_sum - 1
            ELSE vote_sum)

VoteAllPositive(bank, input) ==
    Cardinality({k \in 1 .. Len(bank.clauses) : ClauseEvaluate(bank.clauses[k], input)})

Vote(bank, input) == VoteFrom(bank, input, 1, 0)

I32Max == 2147483647

\* `x as i32` for an f64 x: truncation toward zero, saturating
AsI32(x) ==
    LET t == IF x[1] >= 0 THEN x[1] \div x[2] ELSE -((-x[1]) \div x[2])
    IN  Max(Min(t, I32Max), -I32Max - 1)

ShouldUpdateInclusive(vote_sum, target, threshold) ==
    IF target
    THEN vote_sum <= AsI32(threshold)
    ELSE vote_sum >= -AsI32(threshold)

ShouldUpdate(vote_sum, target, threshold) ==
    IF target
    THEN vote_sum < AsI32(threshold)
    ELSE vote_sum > -AsI32(threshold)

ClauseTargetIgnoresPolarity(polarity, target) == target

\* let clause_target = if polarity { target } else { !target }
ClauseTarget(polarity, target) == IF polarity THEN target ELSE ~target

\* ClauseBank::update from clause k on; r is [bank, used, fed]: the bank so
\* far, the rng values consumed so far, the clauses Clause::update was
\* called on so far
RECURSIVE BankUpdateFrom(_, _, _, _, _, _, _, _)
BankUpdateFrom(r, input, target, threshold, specificity, tape, vote_sum, k) ==
    IF k > Len(r.bank.clauses) THEN r
    ELSE
        LET clause == r.bank.clauses[k]
            clause_output == ClauseEvaluate(clause, input)
            clause_target == ClauseTarget(r.bank.polarities[k], target)
            u == IF ShouldUpdate(vote_sum, target, threshold)
                 THEN ClauseUpdate(clause, input, clause_target, clause_output,
                                   specificity,
                                   [j \in 1 .. Len(tape) - r.used |-> tape[r.used + j]])
                 ELSE [clause |-> clause, used |-> 0]
        IN  BankUpdateFrom(
                [bank |-> [r.bank EXCEPT !.clauses[k] = u.clause],
                 used |-> r.used + u.used,
                 fed  |-> IF ShouldUpdate(vote_sum, target, threshold)
                          THEN r.fed \cup {k} ELSE r.fed],
                input, target, threshold, specificity, tape, vote_sum, k + 1)

\* ClauseBank::update; the result is the bank after the call, the number of
\* rng values consumed and the clauses that received feedback
BankUpdate(bank, input, target, threshold, specificity, tape) ==
    BankUpdateFrom([bank |-> bank, used |-> 0, fed |-> {}],
                   input, target, threshold, specificity, tape,
                   Vote(bank, input), 1)

\* How many values one ClauseBank::update call takes from the rng.  Each
\* automaton is tested once, before its own update, so the count does not
\* depend on the values drawn.
BankUpdateDraws(bank, input, target, threshold, specificity) ==
    BankUpdate(bank, input, target, threshold, specificity,
               [j \in 1 .. 2 * Len(input) * Len(bank.clauses) |-> <<0, 1>>]).used

----------------------------------------------------------------------------
(* machine.rs: TsetlinMachine *)

MachineNumStates == 100

DefaultSpecificity == <<2, 1>>

DefaultThreshold == <<1, 1>>

\* the value of `machine` before any machine has been constructed
NoMachine ==
    [status |-> "none", clause_bank |-> BankNew(0, 0, 0),
     num_features |-> 0, num_clauses |-> 0,
     specificity |-> <<1, 1>>, threshold |-> <<1, 1>>, rng |-> 0]

NewValidAny(num_clauses) == num_clauses >= 0

\* assert!(num_clauses % 2 == 0, ...)
NewValid(num_clauses) == num_clauses % 2 = 0

\* the struct TsetlinMachine::new builds; rng counts the values the machine's
\* StdRng has produced since from_entropy()
MachineNew(num_features, num_clauses, specificity, threshold) ==
    [status |-> "ok",
     clause_bank |-> BankNew(num_features, num_clauses, MachineNumStates),
     num_features |-> num_features, num_clauses |-> num_clauses,
     specificity |-> specificity, threshold |-> threshold, rng |-> 0]

\* A feature table is [ncols, rows]: Array2<bool> keeps its column count
\* even with no rows.
NRows(features) == Len(features.rows)

FitShapeOkColsOnly(m, features, labels) == features.ncols = m.num_features

\* the two assert_eq! at the head of fit
FitShapeOk(m, features, labels) ==
    /\ NRows(features) = Len(labels)
    /\ features.ncols = m.num_features

\* number of index draws SliceRandom::shuffle makes on a slice of length n
ShuffleDraws(n) == IF n = 0 THEN 0 ELSE n - 1

\* the orders indices.shuffle(..) can leave indices in
ShufflesWithRepeats(indices) ==
    LET n == Len(indices)
    IN  {[i \in 1 .. n |-> indices[p[i]]] : p \in [1 .. n -> 1 .. n]}

Shuffles(indices) ==
    LET n == Len(indices)
    IN  {[i \in 1 .. n |-> indices[p[i]]] :
            p \in {q \in [1 .. n -> 1 .. n] : \A i, j \in 1 .. n : q[i] = q[j] => i = j}}

MachinePredictTieTrue(m, features) ==
    [i \in 1 .. NRows(features) |-> Vote(m.clause_bank, features.rows[i]) >= 0]

\* the predictions array predict fills, for a table of matching width
MachinePredict(m, features) ==
    [i \in 1 .. NRows(features) |-> Vote(m.clause_bank, features.rows[i]) > 0]

MachinePredictSingle(m, row) == Vote(m.clause_bank, row) > 0

\* `a as f64 / b as f64` for counts a, b
F64Div(a, b) ==
    IF b # 0 THEN [kind |-> "num", value |-> <<a, b>>]
    ELSE IF a = 0 THEN [kind |-> "NaN", value |-> <<0, 1>>]
    ELSE [kind |-> "inf", value |-> <<1, 1>>]

MachineEvaluateMismatches(m, features, labels) ==
    LET predictions == MachinePredict(m, features)
        wrong == Cardinality({i \in 1 .. Min(Len(predictions), Len(labels)) :
                                 predictions[i] # labels[i]})
    IN  F64Div(wrong, Len(labels))

\* evaluate's result for a table of matching width: zip stops at the shorter
\* of predictions and labels
MachineEvaluate(m, features, labels) ==
    LET predictions == MachinePredict(m, features)
        correct == Cardinality({i \in 1 .. Min(Len(predictions), Len(labels)) :
                                   predictions[i] = labels[i]})
    IN  F64Div(correct, Len(labels))

----------------------------------------------------------------------------
(* Inputs *)

Rows(ncols) == [1 .. ncols -> BOOLEAN]

SeqsUpTo(S, n) == UNION {[1 .. k -> S] : k \in 0 .. n}

FeatureTables ==
    UNION {{[ncols |-> c, rows |-> r] : r \in SeqsUpTo(Rows(c), MaxSamples)} :
              c \in 0 .. MaxFeatures}

LabelArrays == SeqsUpTo(BOOLEAN, MaxSamples)

----------------------------------------------------------------------------
(* SpecAutomaton: one automaton driven through its public methods *)

NoCall == [op |-> "none", outcome |-> "none"]

NoLoop == [epochs |-> 0, indices |-> <<>>, epoch |-> 0, pos |-> 0]

NoAuCall == [op |-> "new"]

MachineIdle ==
    /\ machine = NoMachine
    /\ call = NoCall
    /\ fitPc = "idle"
    /\ fitLoop = NoLoop
    /\ dsFeatures = [ncols |-> 0, rows |-> <<>>]
    /\ dsLabels = <<>>

ClauseIdle ==
    /\ cl = ClauseNew(0, 1)
    /\ clCall = NoCall
    /\ clSpec = DefaultSpecificity

BankIdle ==
    /\ cb = BankNew(0, 0, 1)
    /\ cbIn = [input |-> <<>>, target |-> FALSE,
               threshold |-> DefaultThreshold, specificity |-> DefaultSpecificity]
    /\ cbCall = NoCall

InitAutomaton ==
    /\ \E n \in 1 .. MaxDepth : au = NewAutomaton(n)
    /\ auCalls = 0
    /\ auOnlyPen = TRUE
    /\ auDraws = 0
    /\ auLast = NoAuCall
    /\ MachineIdle
    /\ ClauseIdle
    /\ BankIdle

DoReward ==
    /\ auCalls < MaxCalls
    /\ au' = Reward(au)
    /\ auCalls' = auCalls + 1
    /\ auOnlyPen' = FALSE
    /\ auLast' = [op |-> "reward", before |-> au]
    /\ UNCHANGED auDraws
    /\ UNCHANGED <<machineVars, clauseVars, bankVars>>

DoPenalize ==
    /\ auCalls < MaxCalls
    /\ au' = Penalize(au)
    /\ auCalls' = auCalls + 1
    /\ auLast' = [op |-> "penalize", before |-> au]
    /\ UNCHANGED <<auOnlyPen, auDraws>>
    /\ UNCHANGED <<machineVars, clauseVars, bankVars>>

DoUpdateWithProbability ==
    /\ auCalls < MaxCalls
    /\ \E reward \in BOOLEAN, probability \in Probabilities, u \in DrawVals :
          /\ au' = UpdateWithProbability(au, reward, probability, u)
          /\ auLast' = [op |-> "update_with_probability", before |-> au,
                        reward |-> reward, probability |-> probability,
                        draw |-> u, drawsBefore |-> auDraws]
    /\ auDraws' = auDraws + 1
    /\ auCalls' = auCalls + 1
    /\ auOnlyPen' = FALSE
    /\ UNCHANGED <<machineVars, clauseVars, bankVars>>

NextAutomaton == DoReward \/ DoPenalize \/ DoUpdateWithProbability

SpecAutomaton == InitAutomaton /\ [][NextAutomaton]_vars

----------------------------------------------------------------------------
(* Spec: one TsetlinMachine driven through its public methods *)

AutomatonIdle ==
    /\ au = NewAutomaton(1)
    /\ auCalls = 0
    /\ auOnlyPen = TRUE
    /\ auDraws = 0
    /\ auLast = NoAuCall

\* the caller holds one feature table and one label array, of any shapes
Dataset ==
    /\ dsFeatures \in FeatureTables
    /\ dsLabels \in LabelArrays

Init ==
    /\ AutomatonIdle
    /\ ClauseIdle
    /\ BankIdle
    /\ machine = NoMachine
    /\ call = NoCall
    /\ fitPc = "idle"
    /\ fitLoop = NoLoop
    /\ Dataset

\* TsetlinMachine::new: a failed assert leaves no machine
Construct(op, num_features, num_clauses, specificity, threshold) ==
    /\ machine.status = "none"
    /\ fitPc = "idle"
    /\ IF NewValid(num_clauses)
       THEN /\ machine' = MachineNew(num_features, num_clauses, specificity, threshold)
            /\ call' = [op |-> op, num_features |-> num_features,
                        num_clauses |-> num_clauses, outcome |-> "ok"]
       ELSE /\ machine' = machine
            /\ call' = [op |-> op, num_features |-> num_features,
                        num_clauses |-> num_clauses, outcome |-> "panic"]
    /\ UNCHANGED <<fitPc, fitLoop, dsFeatures, dsLabels>>
    /\ UNCHANGED <<auVars, clauseVars, bankVars>>

New ==
    \E num_features \in 0 .. MaxFeatures, num_clauses \in 0 .. MaxClauses,
       specificity \in Specificities, threshold \in Thresholds :
        Construct("new", num_features, num_clauses, specificity, threshold)

WithDefaults ==
    \E num_features \in 0 .. MaxFeatures, num_clauses \in 0 .. MaxClauses :
        Construct("with_defaults", num_features, num_clauses,
                  DefaultSpecificity, DefaultThreshold)

\* fit up to the loop: the two assertions, num_samples and indices
FitCall ==
    /\ machine.status = "ok"
    /\ fitPc = "idle"
    /\ machine.rng < MaxRng
    /\ \E epochs \in 0 .. MaxEpochs :
          IF FitShapeOk(machine, dsFeatures, dsLabels)
          THEN /\ call' = [op |-> "fit", epochs |-> epochs, before |-> machine,
                           outcome |-> "running", updates |-> 0,
                           visited |-> <<>>, presented |-> <<>>]
               /\ fitPc' = "epoch"
               /\ fitLoop' = [epochs |-> epochs,
                              indices |-> [i \in 1 .. NRows(dsFeatures) |-> i],
                              epoch |-> 0, pos |-> 0]
          ELSE /\ call' = [op |-> "fit", epochs |-> epochs, before |-> machine,
                           outcome |-> "panic", updates |-> 0,
                           visited |-> <<>>, presented |-> <<>>]
               /\ UNCHANGED <<fitPc, fitLoop>>
    /\ UNCHANGED <<machine, dsFeatures, dsLabels>>
    /\ UNCHANGED <<auVars, clauseVars, bankVars>>

\* head of one epoch: indices.shuffle(&mut self.rng)
FitShuffle ==
    /\ fitPc = "epoch"
    /\ fitLoop.epoch < fitLoop.epochs
    /\ \E shuffled \in Shuffles(fitLoop.indices) :
          IF Len(shuffled) = 0
          THEN /\ fitLoop' = [fitLoop EXCEPT !.epoch = @ + 1]
               /\ UNCHANGED fitPc
          ELSE /\ fitLoop' = [fitLoop EXCEPT !.indices = shuffled, !.pos = 1]
               /\ fitPc' = "sample"
    /\ machine' = [machine EXCEPT !.rng = @ + ShuffleDraws(Len(fitLoop.indices))]
    /\ call' = [call EXCEPT !.visited = <<>>, !.presented = <<>>]
    /\ UNCHANGED <<dsFeatures, dsLabels>>
    /\ UNCHANGED <<auVars, clauseVars, bankVars>>

\* the loop control of one inner iteration: on to the next index, or back to
\* the head of the outer loop after the last one
FitSampleAdvance ==
    /\ fitPc = "sample"
    /\ IF fitLoop.pos = Len(fitLoop.indices)
       THEN /\ fitLoop' = [fitLoop EXCEPT !.epoch = @ + 1, !.pos = 0]
            /\ fitPc' = "epoch"
       ELSE /\ fitLoop' = [fitLoop EXCEPT !.pos = @ + 1]
            /\ UNCHANGED fitPc

\* one iteration of the inner loop: ClauseBank::update on sample idx
FitSample ==
    /\ fitPc = "sample"
    /\ LET idx == fitLoop.indices[fitLoop.pos]
           sample_features == dsFeatures.rows[idx]
           target == dsLabels[idx]
           need == BankUpdateDraws(machine.clause_bank, sample_features, target,
                                   machine.threshold, machine.specificity)
       IN  \E tape \in [1 .. need -> DrawVals] :
              LET r == BankUpdate(machine.clause_bank, sample_features, target,
                                  machine.threshold, machine.specificity, tape)
              IN  /\ machine' = [machine EXCEPT !.clause_bank = r.bank,
                                                !.rng = @ + r.used]
                  /\ call' = [call EXCEPT
                                 !.updates = @ + 1,
                                 !.visited = Append(@, idx),
                                 !.presented = Append(@, <<sample_features, target>>)]
    /\ FitSampleAdvance
    /\ UNCHANGED <<dsFeatures, dsLabels>>
    /\ UNCHANGED <<auVars, clauseVars, bankVars>>

\* the outer loop is exhausted: fit returns
FitReturn ==
    /\ fitPc = "epoch"
    /\ fitLoop.epoch = fitLoop.epochs
    /\ fitPc' = "idle"
    /\ call' = [call EXCEPT !.outcome = "ok"]
    /\ fitLoop' = NoLoop
    /\ UNCHANGED <<machine, dsFeatures, dsLabels>>
    /\ UNCHANGED <<auVars, clauseVars, bankVars>>

Predict ==
    /\ machine.status = "ok"
    /\ fitPc = "idle"
    /\ call' = IF dsFeatures.ncols = machine.num_features
               THEN [op |-> "predict", outcome |-> "ok",
                     result |-> MachinePredict(machine, dsFeatures)]
               ELSE [op |-> "predict", outcome |-> "panic", result |-> <<>>]
    /\ UNCHANGED <<machine, fitPc, fitLoop, dsFeatures, dsLabels>>
    /\ UNCHANGED <<auVars, clauseVars, bankVars>>

PredictSingle ==
    /\ machine.status = "ok"
    /\ fitPc = "idle"
    /\ \E i \in 1 .. NRows(dsFeatures) :
          LET row == dsFeatures.rows[i] IN
          call' = IF Len(row) = machine.num_features
                  THEN [op |-> "predict_single", features |-> row, outcome |-> "ok",
                        result |-> MachinePredictSingle(machine, row)]
                  ELSE [op |-> "predict_single", features |-> row,
                        outcome |-> "panic", result |-> FALSE]
    /\ UNCHANGED <<machine, fitPc, fitLoop, dsFeatures, dsLabels>>
    /\ UNCHANGED <<auVars, clauseVars, bankVars>>

\* evaluate: predict's assertion is the only one made
Evaluate ==
    /\ machine.status = "ok"
    /\ fitPc = "idle"
    /\ call' = IF dsFeatures.ncols = machine.num_features
               THEN [op |-> "evaluate", outcome |-> "ok",
                     result |-> MachineEvaluate(machine, dsFeatures, dsLabels)]
               ELSE [op |-> "evaluate", outcome |-> "panic", result |-> F64Div(0, 1)]
    /\ UNCHANGED <<machine, fitPc, fitLoop, dsFeatures, dsLabels>>
    /\ UNCHANGED <<auVars, clauseVars, bankVars>>

Next ==
    \/ New
    \/ WithDefaults
    \/ FitCall
    \/ FitShuffle
    \/ FitSample
    \/ FitReturn
    \/ Predict
    \/ PredictSingle
    \/ Evaluate

Spec == Init /\ [][Next]_vars

\* fit runs to completion in the caller's thread: once called, each step of
\* its loops is taken, and it returns when the outer loop is exhausted.  A
\* FitSample step is enabled exactly when its loop control is, and every step
\* that moves the loop control is a FitSample step, so fairness of the
\* inner loop is stated on FitSampleAdvance.
NextFit ==
    \/ FitCall
    \/ FitShuffle
    \/ FitSample
    \/ FitReturn

\* a table whose row i spells i in binary, so that rows differ where the
\* width allows
FitRows(ncols, n) ==
    [i \in 1 .. n |-> [j \in 1 .. ncols |-> (i \div (2 ^ (j - 1))) % 2 = 1]]

\* a machine from with_defaults and the caller's dataset, of any shape
InitFit ==
    /\ AutomatonIdle
    /\ ClauseIdle
    /\ BankIdle
    /\ machine = MachineNew(MaxFeatures, 2, DefaultSpecificity, DefaultThreshold)
    /\ call = NoCall
    /\ fitPc = "idle"
    /\ fitLoop = NoLoop
    /\ \E ncols \in 0 .. MaxFeatures, n \in 0 .. MaxSamples :
          dsFeatures = [ncols |-> ncols, rows |-> FitRows(ncols, n)]
    /\ dsLabels \in LabelArrays

SpecFit ==
    /\ InitFit
    /\ [][NextFit]_vars
    /\ WF_vars(FitShuffle)
    /\ WF_<<fitPc, fitLoop>>(FitSampleAdvance)
    /\ WF_vars(FitReturn)

----------------------------------------------------------------------------
(* SpecPredict: predict and predict_single as functions of the machine.    *)
(* The machine is drawn with up to MaxTouched automata away from the fresh *)
(* state, at the two states on either side of the Include boundary.         *)

BoundaryStates == {0, 1}

\* automaton slots of a bank: <<clause, "positive" | "negative", feature>>
Slots(num_features, num_clauses) ==
    (1 .. num_clauses) \X {"positive", "negative"} \X (1 .. num_features)

\* the fresh bank with the automata in the domain of g at the states g gives
BankWith(num_features, num_clauses, g) ==
    LET A(s) == IF s \in DOMAIN g
                THEN [state |-> g[s], num_states |-> MachineNumStates]
                ELSE NewAutomaton(MachineNumStates)
    IN  [clauses |->
             [k \in 1 .. num_clauses |->
                 [positive_automata |->
                      [i \in 1 .. num_features |-> A(<<k, "positive", i>>)],
                  negative_automata |->
                      [i \in 1 .. num_features |-> A(<<k, "negative", i>>)]]],
         polarities |-> BankNew(num_features, num_clauses, MachineNumStates).polarities]

Banks(num_features, num_clauses) ==
    UNION {{BankWith(num_features, num_clauses, g) : g \in [S -> BoundaryStates]} :
              S \in {T \in SUBSET Slots(num_features, num_clauses) :
                        Cardinality(T) <= MaxTouched}}

InitPredict ==
    /\ AutomatonIdle
    /\ ClauseIdle
    /\ BankIdle
    /\ \E num_features \in 0 .. MaxFeatures, specificity \in {DefaultSpecificity},
          threshold \in {DefaultThreshold} :
          \E bank \in Banks(num_features, 2 * PredHalf) :
             machine = [MachineNew(num_features, 2 * PredHalf, specificity, threshold)
                           EXCEPT !.clause_bank = bank]
    /\ call = NoCall
    /\ fitPc = "idle"
    /\ fitLoop = NoLoop
    /\ dsFeatures \in FeatureTables
    /\ dsLabels = <<>>

NextPredict == Predict \/ PredictSingle

SpecPredict == InitPredict /\ [][NextPredict]_vars

----------------------------------------------------------------------------
(* SpecClause: one Clause driven through its public methods.  update is    *)
(* public, so the caller is free in clause_output.                         *)

MachineRest ==
    /\ machine = NoMachine
    /\ call = NoCall
    /\ fitPc = "idle"
    /\ fitLoop = NoLoop
    /\ dsFeatures = [ncols |-> 0, rows |-> <<>>]
    /\ dsLabels = <<>>

InitClause ==
    /\ AutomatonIdle
    /\ MachineRest
    /\ BankIdle
    /\ \E num_features \in 0 .. MaxFeatures, num_states \in 1 .. ClauseDepth :
          cl = ClauseNew(num_features, num_states)
    /\ clCall = NoCall
    /\ clSpec \in Specificities

ClEvaluate ==
    /\ \E input \in Rows(Len(cl.positive_automata)) :
          clCall' = [op |-> "evaluate", outcome |-> "ok", input |-> input,
                     result |-> ClauseEvaluate(cl, input)]
    /\ UNCHANGED <<cl, clSpec>>
    /\ UNCHANGED <<auVars, machineVars, bankVars>>

ClUpdate ==
    /\ \E input \in Rows(Len(cl.positive_automata)),
          target \in BOOLEAN, clause_output \in BOOLEAN :
          \E tape \in [1 .. ClauseUpdateDraws(cl, input, target, clause_output,
                                              clSpec) -> TapeVals] :
             LET r == ClauseUpdate(cl, input, target, clause_output, clSpec, tape)
             IN  /\ cl' = r.clause
                 /\ clCall' = [op |-> "update", outcome |-> "ok", input |-> input,
                               target |-> target, clause_output |-> clause_output,
                               specificity |-> clSpec, tape |-> tape,
                               before |-> cl, used |-> r.used]
    /\ UNCHANGED clSpec
    /\ UNCHANGED <<auVars, machineVars, bankVars>>

NextClause == ClEvaluate \/ ClUpdate

SpecClause == InitClause /\ [][NextClause]_vars

----------------------------------------------------------------------------
(* SpecBank: ClauseBank::vote and ClauseBank::update as functions of the   *)
(* bank.  The fields of ClauseBank are private and no sequence of public   *)
(* calls moves an automaton of a bank built by ClauseBank::new, so the     *)
(* values of the type the two methods are applied to are drawn here: the   *)
(* fresh bank and the banks with up to BankTouched automata at the first   *)
(* Include state.  Each method is applied once to each value drawn.        *)

BankWithDepth(num_features, num_clauses, num_states, g) ==
    LET A(s) == IF s \in DOMAIN g
                THEN [state |-> g[s], num_states |-> num_states]
                ELSE NewAutomaton(num_states)
    IN  [clauses |->
             [k \in 1 .. num_clauses |->
                 [positive_automata |->
                      [i \in 1 .. num_features |-> A(<<k, "positive", i>>)],
                  negative_automata |->
                      [i \in 1 .. num_features |-> A(<<k, "negative", i>>)]]],
         polarities |-> BankNew(num_features, num_clauses, num_states).polarities]

BankValues(num_features, num_clauses, num_states) ==
    UNION {{BankWithDepth(num_features, num_clauses, num_states, g) :
                g \in [S -> {1}]} :
              S \in {T \in SUBSET Slots(num_features, num_clauses) :
                        Cardinality(T) <= BankTouched}}

InitBank ==
    /\ AutomatonIdle
    /\ MachineRest
    /\ ClauseIdle
    /\ \E num_features \in 0 .. MaxFeatures, num_clauses \in 0 .. MaxClauses,
          num_states \in 1 .. ClauseDepth :
          /\ cb \in BankValues(num_features, num_clauses, num_states)
          /\ cbIn \in [input : Rows(num_features), target : BOOLEAN,
                       threshold : Thresholds, specificity : Specificities]
    /\ cbCall = NoCall

CbVote ==
    /\ cbCall = NoCall
    /\ cbCall' = [op |-> "vote", outcome |-> "ok", result |-> Vote(cb, cbIn.input)]
    /\ UNCHANGED <<cb, cbIn>>
    /\ UNCHANGED <<auVars, machineVars, clauseVars>>

CbUpdate ==
    /\ cbCall = NoCall
    /\ \E tape \in [1 .. BankUpdateDraws(cb, cbIn.input, cbIn.target, cbIn.threshold,
                                         cbIn.specificity) -> TapeVals] :
          LET r == BankUpdate(cb, cbIn.input, cbIn.target, cbIn.threshold,
                              cbIn.specificity, tape)
          IN  /\ cb' = r.bank
              /\ cbCall' = [op |-> "update", outcome |-> "ok", before |-> cb,
                            tape |-> tape, used |-> r.used, fed |-> r.fed]
    /\ UNCHANGED cbIn
    /\ UNCHANGED <<auVars, machineVars, clauseVars>>

NextBank == CbVote \/ CbUpdate

SpecBank == InitBank /\ [][NextBank]_vars

----------------------------------------------------------------------------
(* Automaton claims *)

\* C7: for every depth_limit >= 1, after any sequence of reward(), penalize()
\* and update_with_probability() calls on a fresh automaton, state stays
\* within [-depth_limit, depth_limit].
C7_StateWithinDepth ==
    /\ au.num_states >= 1
    /\ au.state >= -au.num_states
    /\ au.state <= au.num_states

\* reward() at the deepest Include state saturates there
C7_Witness ==
    /\ auLast.op = "reward"
    /\ auLast.before.state = au.num_states
    /\ au.state = au.num_states

\* C8 (as claimed): the automaton's state is never 0.
C8_StateNeverZero == au.state # 0

\* C9: a fresh automaton has state -depth_limit and action Exclude; after k
\* penalize() calls the action is still Exclude for every k <= depth_limit,
\* and after exactly depth_limit + 1 calls it is Include.
C9_PenalizeFlipsAfterDepthPlusOne ==
    auOnlyPen =>
        /\ auCalls = 0 => au.state = -au.num_states
        /\ auCalls <= au.num_states => Action(au) = "Exclude"
        /\ auCalls = au.num_states + 1 => Action(au) = "Include"

C9_Witness ==
    /\ auOnlyPen
    /\ auCalls = au.num_states + 1
    /\ auLast.op = "penalize"
    /\ Action(auLast.before) = "Exclude"
    /\ Action(au) = "Include"

\* C10: update_with_probability draws exactly one value u and applies the
\* transition iff u < probability: with probability 0.0 the state is
\* unchanged, with probability 1.0 reward() (flag true) or penalize() (flag
\* false) is applied whatever u is.
C10_UpdateWithProbability ==
    auLast.op = "update_with_probability" =>
        LET b == auLast.before
            p == auLast.probability
            applied == IF auLast.reward THEN Reward(b) ELSE Penalize(b)
        IN  /\ auDraws = auLast.drawsBefore + 1
            /\ au = IF RLt(auLast.draw, p) THEN applied ELSE b
            /\ p[1] = 0 => au = b
            /\ p[1] = p[2] => au = applied

\* a draw of exactly 0 against probability 0.0 on an automaton any
\* transition would move
C10_Witness ==
    /\ auLast.op = "update_with_probability"
    /\ auLast.probability[1] = 0
    /\ auLast.draw[1] = 0
    /\ ~auLast.reward
    /\ au = auLast.before

----------------------------------------------------------------------------
(* Machine claims *)

\* C1: new and with_defaults fail, leaving no machine, whenever num_clauses
\* is odd, for every num_features, specificity and threshold.
C1_OddClausesRejected ==
    (call.op \in {"new", "with_defaults"} /\ call.num_clauses % 2 = 1) =>
        /\ call.outcome = "panic"
        /\ machine.status = "none"

\* with_defaults(num_features, n) with n odd has failed
C1_Witness ==
    /\ call.op = "with_defaults"
    /\ call.num_features = MaxFeatures
    /\ call.num_clauses % 2 = 1
    /\ call.outcome = "panic"
    /\ machine.status = "none"

\* C2 (as claimed): new and with_defaults fail when num_clauses is zero, so
\* no machine with an empty clause bank exists.
C2_ZeroClausesRejected ==
    /\ (call.op \in {"new", "with_defaults"} /\ call.num_clauses = 0) =>
           call.outcome = "panic"
    /\ machine.status = "ok" => Len(machine.clause_bank.clauses) > 0

\* C3: fit called with rows(features) # len(labels) or cols(features) #
\* num_features fails, and the clause bank and the random source are what
\* they were before the call.
C3_FitShapeMismatchNoMutation ==
    (/\ call.op = "fit"
     /\ \/ Len(dsFeatures.rows) # Len(dsLabels)
        \/ dsFeatures.ncols # machine.num_features) =>
        /\ call.outcome = "panic"
        /\ fitPc = "idle"
        /\ machine.clause_bank = call.before.clause_bank
        /\ machine.rng = call.before.rng

\* a fit whose table is as wide as the machine but has more rows than labels
C3_Witness ==
    /\ call.op = "fit"
    /\ call.epochs > 0
    /\ dsFeatures.ncols = machine.num_features
    /\ Len(dsFeatures.rows) > Len(dsLabels)
    /\ call.outcome = "panic"
    /\ machine = call.before

\* C4 (as claimed): evaluate with an empty label sequence reports an error
\* and never returns an undefined number.
C4_EmptyLabelsReported ==
    (call.op = "evaluate" /\ dsLabels = <<>>) =>
        /\ call.outcome = "panic"
        /\ call.result.kind # "NaN"

\* C5: predict, per row, and predict_single return TRUE exactly when
\* vote(row) > 0, so ties and negative votes give FALSE, and predict's entry
\* for a row is what predict_single returns for it.
C5_PredictIsPositiveVote ==
    /\ (call.op = "predict" /\ call.outcome = "ok") =>
           /\ Len(call.result) = Len(dsFeatures.rows)
           /\ \A i \in 1 .. Len(dsFeatures.rows) :
                 /\ call.result[i] = (Vote(machine.clause_bank, dsFeatures.rows[i]) > 0)
                 /\ call.result[i] = MachinePredictSingle(machine, dsFeatures.rows[i])
    /\ (call.op = "predict_single" /\ call.outcome = "ok") =>
           call.result = (Vote(machine.clause_bank, call.features) > 0)

\* one predict call over a row with a tied vote and a row with a negative vote
C5_Witness ==
    /\ call.op = "predict"
    /\ call.outcome = "ok"
    /\ \E i, j \in 1 .. Len(dsFeatures.rows) :
          /\ Vote(machine.clause_bank, dsFeatures.rows[i]) = 0
          /\ Vote(machine.clause_bank, dsFeatures.rows[j]) < 0
          /\ ~call.result[i]
          /\ ~call.result[j]

----------------------------------------------------------------------------
(* Clause claims *)

\* the literals of a clause: <<"positive" | "negative", feature>>
Literals(c) == {"positive", "negative"} \X (1 .. Len(c.positive_automata))

AutomatonOf(c, l) ==
    IF l[1] = "positive" THEN c.positive_automata[l[2]] ELSE c.negative_automata[l[2]]

\* the literal holds on the input
Holds(l, input) == IF l[1] = "positive" THEN input[l[2]] ELSE ~input[l[2]]

\* C11: Clause.evaluate returns the conjunction over all features i of
\* (positive[i] Include => input[i]) and (negative[i] Include => not input[i]);
\* a clause whose automata are all Exclude evaluates to true.
C11_EvaluateIsConjunction ==
    clCall.op = "evaluate" =>
        /\ clCall.result =
              (\A i \in 1 .. Len(clCall.input) :
                  /\ cl.positive_automata[i].state > 0 => clCall.input[i]
                  /\ cl.negative_automata[i].state > 0 => ~clCall.input[i])
        /\ (\A l \in Literals(cl) : AutomatonOf(cl, l).state <= 0) => clCall.result

\* evaluate returned false on a negative literal alone
C11_Witness ==
    /\ clCall.op = "evaluate"
    /\ ~clCall.result
    /\ \A i \in 1 .. Len(clCall.input) :
          cl.positive_automata[i].state > 0 => clCall.input[i]
    /\ \E i \in 1 .. Len(clCall.input) :
          cl.negative_automata[i].state > 0 /\ clCall.input[i]

Eligible(c, input) ==
    {l \in Literals(c) : AutomatonOf(c, l).state <= 0 /\ Holds(l, input)}

\* C18: Clause.update with target true and clause_output false touches only
\* Excluded automata whose literal holds on the input: each takes one draw
\* and its state stays or increases by exactly 1 (it increases iff the draw
\* is below specificity/(specificity+1)); every other automaton is unchanged.
C18_TypeINotFiring ==
    (clCall.op = "update" /\ clCall.target /\ ~clCall.clause_output) =>
        LET e == Eligible(clCall.before, clCall.input)
            s == clCall.specificity
        IN  /\ clCall.used = Cardinality(e)
            /\ \A l \in Literals(cl) :
                  LET b == AutomatonOf(clCall.before, l)
                      a == AutomatonOf(cl, l)
                      \* at most one literal per feature is eligible
                      rank == Cardinality({m \in e : m[2] <= l[2]})
                  IN  /\ a.num_states = b.num_states
                      /\ l \notin e => a.state = b.state
                      /\ l \in e =>
                            /\ a.state \in {b.state, b.state + 1}
                            /\ a.state = b.state + 1 <=>
                                  clCall.tape[rank][1] * (s[1] + s[2])
                                      < s[1] * clCall.tape[rank][2]

\* an Excluded literal stepped up next to an Included one left alone
C18_Witness ==
    /\ clCall.op = "update"
    /\ clCall.target
    /\ ~clCall.clause_output
    /\ \E l, m \in Literals(cl) :
          /\ l \in Eligible(clCall.before, clCall.input)
          /\ AutomatonOf(cl, l).state = AutomatonOf(clCall.before, l).state + 1
          /\ AutomatonOf(clCall.before, m).state > 0
          /\ AutomatonOf(cl, m) = AutomatonOf(clCall.before, m)

\* C19: Clause.update with target false changes nothing and draws nothing
\* when clause_output is false; when it is true every Included automaton
\* takes one draw and its state stays or decreases by exactly 1 (it decreases
\* iff the draw is below 1/specificity); every Excluded one is unchanged.
C19_TypeII ==
    (clCall.op = "update" /\ ~clCall.target) =>
        LET inc == {l \in Literals(cl) : AutomatonOf(clCall.before, l).state > 0}
            s == clCall.specificity
        IN  IF ~clCall.clause_output
            THEN cl = clCall.before /\ clCall.used = 0
            ELSE /\ clCall.used = Cardinality(inc)
                 /\ \A l \in Literals(cl) :
                       LET b == AutomatonOf(clCall.before, l)
                           a == AutomatonOf(cl, l)
                           \* positive[i] draws before negative[i]
                           rank == Cardinality({m \in inc :
                                       \/ m[2] < l[2]
                                       \/ m[2] = l[2] /\ (m[1] = "positive" \/ m = l)})
                       IN  /\ a.num_states = b.num_states
                           /\ l \notin inc => a.state = b.state
                           /\ l \in inc =>
                                 /\ a.state \in {b.state, b.state - 1}
                                 /\ a.state = b.state - 1 <=>
                                       clCall.tape[rank][1] * s[1]
                                           < s[2] * clCall.tape[rank][2]

\* a fired clause: one Included literal stepped down, one kept its state
C19_Witness ==
    /\ clCall.op = "update"
    /\ ~clCall.target
    /\ clCall.clause_output
    /\ \E l, m \in Literals(cl) :
          /\ AutomatonOf(clCall.before, l).state > 0
          /\ AutomatonOf(cl, l).state = AutomatonOf(clCall.before, l).state - 1
          /\ AutomatonOf(clCall.before, m).state > 0
          /\ AutomatonOf(cl, m) = AutomatonOf(clCall.before, m)

----------------------------------------------------------------------------
(* Clause bank claims *)

\* the clauses of the given polarity that evaluate true on the input, the
\* first num_clauses / 2 clauses counted as the positive ones
Firing(bank, input, positive) ==
    {k \in 1 .. Len(bank.clauses) :
        /\ (k <= Len(bank.clauses) \div 2) = positive
        /\ ClauseEvaluate(bank.clauses[k], input)}

\* C12: ClauseBank.vote returns the number of positive-polarity clauses that
\* evaluate true minus the number of negative-polarity clauses that evaluate
\* true, the first num_clauses/2 clauses being the positive ones; an
\* all-Exclude bank with an even number of clauses votes 0.
C12_VoteIsPolarityDifference ==
    cbCall.op = "vote" =>
        /\ cbCall.result = Cardinality(Firing(cb, cbIn.input, TRUE))
                               - Cardinality(Firing(cb, cbIn.input, FALSE))
        /\ (/\ Len(cb.clauses) % 2 = 0
            /\ \A k \in 1 .. Len(cb.clauses) : \A l \in Literals(cb.clauses[k]) :
                  AutomatonOf(cb.clauses[k], l).state <= 0)
           => cbCall.result = 0

\* a positive clause fired, a negative one did not, and the vote is above 0
C12_Witness ==
    /\ cbCall.op = "vote"
    /\ Firing(cb, cbIn.input, TRUE) # {}
    /\ \E k \in 1 .. Len(cb.clauses) :
          k > Len(cb.clauses) \div 2 /\ ~ClauseEvaluate(cb.clauses[k], cbIn.input)
    /\ cbCall.result > 0

\* the gate of ClauseBank::update, from the vote of the bank as the call found it
GateOpen ==
    LET vote_sum == Vote(cbCall.before, cbIn.input)
        t == cbIn.threshold[1] \div cbIn.threshold[2]
    IN  IF cbIn.target THEN vote_sum < t ELSE vote_sum > -t

\* C15: one ClauseBank.update call decides its gate once, from the vote of
\* the bank before any clause is modified: with target true the clauses
\* receive feedback iff vote_sum < trunc(threshold), with target false iff
\* vote_sum > -trunc(threshold), all clauses or none; a closed gate changes
\* no automaton and consumes no draw.
C15_GateFromSingleVote ==
    cbCall.op = "update" =>
        /\ cbCall.fed = IF GateOpen THEN 1 .. Len(cb.clauses) ELSE {}
        /\ ~GateOpen => (cb = cbCall.before /\ cbCall.used = 0)

\* target true and the vote exactly on trunc(threshold) > 0: the gate is
\* closed on a bank that has an Included automaton
C15_Witness ==
    /\ cbCall.op = "update"
    /\ cbIn.target
    /\ cbIn.threshold[1] \div cbIn.threshold[2] > 0
    /\ Vote(cbCall.before, cbIn.input) = cbIn.threshold[1] \div cbIn.threshold[2]
    /\ cbCall.fed = {}
    /\ \E k \in 1 .. Len(cb.clauses) : \E l \in Literals(cb.clauses[k]) :
          AutomatonOf(cb.clauses[k], l).state > 0

\* rng values consumed by the clauses before clause k of one open-gate call
RECURSIVE DrawsBefore(_)
DrawsBefore(k) ==
    IF k <= 1 THEN 0
    ELSE DrawsBefore(k - 1)
         + ClauseUpdateDraws(cbCall.before.clauses[k - 1], cbIn.input,
                             (k - 1 <= Len(cb.clauses) \div 2) = cbIn.target,
                             ClauseEvaluate(cbCall.before.clauses[k - 1], cbIn.input),
                             cbIn.specificity)

\* C16: with the gate open ClauseBank.update calls Clause.update on every
\* clause in index order, with the call's target for positive-polarity
\* clauses and its negation for negative-polarity ones, and with the
\* clause's own evaluate(input) taken just before its update as clause_output.
C16_FeedbackPerClause ==
    (cbCall.op = "update" /\ cbCall.fed # {}) =>
        /\ cbCall.used = DrawsBefore(Len(cb.clauses) + 1)
        /\ \A k \in 1 .. Len(cb.clauses) :
              LET c == cbCall.before.clauses[k]
                  rest == [j \in 1 .. cbCall.used - DrawsBefore(k) |->
                              cbCall.tape[DrawsBefore(k) + j]]
              IN  cb.clauses[k] =
                      ClauseUpdate(c, cbIn.input,
                                   (k <= Len(cb.clauses) \div 2) = cbIn.target,
                                   ClauseEvaluate(c, cbIn.input),
                                   cbIn.specificity, rest).clause

\* feedback that moved a clause of each polarity, the later one on draws
\* that follow the earlier one's
C16_Witness ==
    /\ cbCall.op = "update"
    /\ cbCall.fed # {}
    /\ \E k, m \in 1 .. Len(cb.clauses) :
          /\ k <= Len(cb.clauses) \div 2
          /\ m > Len(cb.clauses) \div 2
          /\ cb.clauses[k] # cbCall.before.clauses[k]
          /\ cb.clauses[m] # cbCall.before.clauses[m]
          /\ DrawsBefore(m) > 0

----------------------------------------------------------------------------
(* Machine claims: evaluate and fit *)

\* C13: for a machine that has been fitted and non-empty labels with a
\* matching feature table, evaluate returns k / len(labels), k the number of
\* rows whose prediction equals the row's label, a value in [0, 1].
C13_EvaluateIsFraction ==
    (/\ call.op = "evaluate"
     /\ call.outcome = "ok"
     /\ Len(dsLabels) > 0
     /\ NRows(dsFeatures) = Len(dsLabels)) =>
        LET k == Cardinality({i \in 1 .. Len(dsLabels) :
                     MachinePredictSingle(machine, dsFeatures.rows[i]) = dsLabels[i]})
        IN  /\ call.result.kind = "num"
            /\ call.result.value = <<k, Len(dsLabels)>>
            /\ 0 <= call.result.value[1]
            /\ call.result.value[1] <= call.result.value[2]

\* evaluate after a fit, on labels of which some but not all are predicted
C13_Witness ==
    /\ call.op = "evaluate"
    /\ call.outcome = "ok"
    /\ machine.rng > 0
    /\ NRows(dsFeatures) = Len(dsLabels)
    /\ call.result.kind = "num"
    /\ 0 < call.result.value[1]
    /\ call.result.value[1] < call.result.value[2]

\* C14: ClauseBank.update on a freshly constructed bank leaves every
\* automaton where it is, whatever the input, target, threshold, specificity
\* and draws; so after any sequence of fit calls on a new machine every
\* automaton is still at -depth_limit and Exclude.
C14_FreshBankNeverMoves ==
    machine.status = "ok" =>
        \A k \in 1 .. Len(machine.clause_bank.clauses) :
            \A l \in Literals(machine.clause_bank.clauses[k]) :
                LET a == AutomatonOf(machine.clause_bank.clauses[k], l)
                IN  /\ a.state = -a.num_states
                    /\ Action(a) = "Exclude"

\* a fit that returned after feedback through an open gate
C14_Witness ==
    /\ call.op = "fit"
    /\ call.outcome = "ok"
    /\ call.updates > 0
    /\ machine.num_features > 0
    /\ machine.num_clauses > 0
    /\ \E i \in 1 .. Len(call.presented) :
          ShouldUpdate(0, call.presented[i][2], machine.threshold)

\* the current epoch of the fit call has visited distinct samples, each
\* presented as its own row with its own label
EpochSoFar ==
    /\ \A i, j \in 1 .. Len(call.visited) : call.visited[i] = call.visited[j] => i = j
    /\ \A i \in 1 .. Len(call.visited) : call.visited[i] \in 1 .. NRows(dsFeatures)
    /\ call.presented =
          [i \in 1 .. Len(call.visited) |->
              <<dsFeatures.rows[call.visited[i]], dsLabels[call.visited[i]]>>]

FitAccounting ==
    (call.op = "fit" /\ call.outcome \in {"running", "ok"}) =>
        /\ EpochSoFar
        /\ (fitPc = "epoch" /\ fitLoop.epoch > 0) => Len(call.visited) = NRows(dsFeatures)
        /\ fitPc = "sample" =>
              call.updates = fitLoop.epoch * NRows(dsFeatures) + Len(call.visited)
        /\ fitPc = "epoch" => call.updates = fitLoop.epoch * NRows(dsFeatures)
        /\ call.outcome = "ok" =>
              /\ call.updates = call.epochs * NRows(dsFeatures)
              /\ call.epochs > 0 => Len(call.visited) = NRows(dsFeatures)

\* C20: fit with valid shapes terminates after exactly epochs * rows calls to
\* ClauseBank.update; within an epoch the visiting order is a permutation of
\* the sample indices, every sample presented once with its own label; with
\* epochs = 0 no update is performed.
C20_FitTerminatesAfterEpochsTimesRows ==
    /\ []FitAccounting
    /\ (call.op = "fit" /\ call.outcome = "running")
          ~> (/\ call.op = "fit"
              /\ call.outcome = "ok"
              /\ call.updates = call.epochs * NRows(dsFeatures))

\* a fit that returned after an epoch that visited the samples out of order
C20_Witness ==
    /\ call.op = "fit"
    /\ call.outcome = "ok"
    /\ call.epochs > 0
    /\ Len(call.visited) = NRows(dsFeatures)
    /\ Len(call.visited) >= 2
    /\ call.visited[1] > call.visited[2]
    /\ call.updates = call.epochs * NRows(dsFeatures)

----------------------------------------------------------------------------
(* Claims on the direction of feedback *)

\* C21: under any sequence of Clause.update calls reward() reaches only
\* automata whose action is Include, so an automaton with state <= 0 never
\* has its state decreased; an automaton whose state is >= 0 stays within
\* [0, depth_limit] from then on.
C21_ExcludedNeverPushedDown ==
    clCall.op = "update" =>
        \A l \in Literals(cl) :
            LET b == AutomatonOf(clCall.before, l)
                a == AutomatonOf(cl, l)
            IN  /\ b.state <= 0 => a.state >= b.state
                /\ b.state >= 0 => (0 <= a.state /\ a.state <= a.num_states)

\* an Included automaton penalized down to 0 next to an Excluded one at 0
\* that the same call left alone
C21_Witness ==
    /\ clCall.op = "update"
    /\ \E l, m \in Literals(cl) :
          /\ AutomatonOf(clCall.before, l).state = 1
          /\ AutomatonOf(cl, l).state = 0
          /\ AutomatonOf(clCall.before, m).state = 0
          /\ AutomatonOf(cl, m).state = 0

\* C22: when ClauseBank.update gives a clause Type I feedback (clause-level
\* target true) and the clause evaluates true on the input, no automaton of
\* the clause is penalized, only rewards are applied, and the clause still
\* evaluates true on the same input after the update.
C22_FiringClauseOnlyRewarded ==
    cbCall.op = "update" =>
        \A k \in cbCall.fed :
            LET c == cbCall.before.clauses[k]
                clause_target == (k <= Len(cb.clauses) \div 2) = cbIn.target
            IN  (clause_target /\ ClauseEvaluate(c, cbIn.input)) =>
                    /\ \A l \in Literals(c) :
                          LET b == AutomatonOf(c, l)
                              a == AutomatonOf(cb.clauses[k], l)
                          IN  /\ a.state >= b.state
                              /\ b.state <= 0 => a.state = b.state
                              /\ b.state > 0 => a.state = Min(b.state + 1, b.num_states)
                    /\ ClauseEvaluate(cb.clauses[k], cbIn.input)

\* Type I feedback reached a firing clause that has an Included literal
C22_Witness ==
    /\ cbCall.op = "update"
    /\ \E k \in cbCall.fed :
          /\ (k <= Len(cb.clauses) \div 2) = cbIn.target
          /\ ClauseEvaluate(cbCall.before.clauses[k], cbIn.input)
          /\ \E l \in Literals(cb.clauses[k]) :
                /\ AutomatonOf(cbCall.before.clauses[k], l).state > 0
                /\ Holds(l, cbIn.input)
                /\ AutomatonOf(cb.clauses[k], l).state > 0
          /\ ClauseEvaluate(cb.clauses[k], cbIn.input)

====
